---- MODULE Spec2Model ----
(***************************************************************************)
(* Model of the two Flask services of the repository:                      *)
(*   applications/database/app.py  (downstream storage facade, fault       *)
(*                                  catalog)                               *)
(*   applications/api/app.py       (upstream aggregator, fault catalog)    *)
(*                                                                         *)
(* Spec        the database service, one request at a time                 *)
(* SpecApi     the api service forwarding to the database service          *)
(* SpecFaults  diagnostic requests to the two fault catalogs               *)
(* SpecConc    two request threads of the database service, Fallback mode  *)
(***************************************************************************)
EXTENDS Integers, Sequences, FiniteSets, TLC

\* Largest id a caller supplies (ids are 1..MaxId); creates stop once the
\* counter passes it.
MaxId == 2

\* Redis expiry set by create_user.
EXPIRE_SECONDS == 3600

\* signal.alarm(2) of the infinite_loop scenario.
ALARM_SECONDS == 2

\* "Safety net" of the infinite_loop scenario: the loop breaks past this count.
SAFETY_NET == 1000000

\* Iterations the busy-loop runs in one step of the model.
LoopChunk == 500000

\* Values time.time() returns in the model.
Times == {7}

VARIABLES
    redis_client,     \* TRUE: the module-level client (External); FALSE: None (Fallback)
    redis_up,         \* environment: the external store answers right now
    redis_users,      \* external store, keys user:<id> -> [hash, ttl]
    redis_misc,       \* external store, the other keys the fault catalog writes
    memory_users,     \* database service: dict id -> user
    memory_counter,   \* database service: next id
    inserted,         \* history: ids ever written to the active store
    deleted,          \* history: ids deleted with 200 and not written since
    db_resp,          \* response of the database service to the last request made of
                      \* it (none when the api service's last request did not reach it)
    io_error,         \* history: a redis call of that request failed
    users,            \* api service: list of users
    user_counter,     \* api service: next id
    api_pc,           \* api service: position of the request being handled
    api_resp,         \* response of the api service to its last request
    downstream,       \* outcome of the last call the api service made downstream
    th,               \* database service threads (SpecConc)
    pipe,             \* database service: the redis pipeline of the request in hand
    loop              \* api service: the busy-loop of the request in hand

dbstore == <<redis_users, redis_misc, memory_users, memory_counter, inserted, deleted>>
dbvars == <<redis_users, redis_misc, memory_users, memory_counter, inserted, deleted,
            db_resp, io_error>>
apivars == <<users, user_counter, api_pc, api_resp, downstream>>
vars == <<redis_client, redis_up, redis_users, redis_misc, memory_users,
          memory_counter, inserted, deleted, db_resp, io_error, users, user_counter,
          api_pc, api_resp, downstream, th, pipe, loop>>

----------------------------------------------------------------------------
\* JSON objects are functions from field names to values; {} is the empty one.

EmptyObj == [f \in {} |-> 0]

\* dict.get(k, default)
Get(data, k, default) == IF k \in DOMAIN data THEN data[k] ELSE default

Max(a, b) == IF a >= b THEN a ELSE b

\* A counter update that ignores the id just stored.
NextCounterPlain(counter, user_id) == counter + 1

\* memory_counter = max(memory_counter, user_id) + 1
NextCounter(counter, user_id) == Max(counter, user_id) + 1

\* redis-py encodes a number as its decimal text; decode_responses=True gives
\* text back, and int()/float() parse it.
ReprTable == <<"0", "1", "2", "3", "4", "5", "6", "7", "8", "9">>

Repr(n) == ReprTable[n + 1]

ParseNum(s) == CHOOSE n \in 0..(Len(ReprTable) - 1) : ReprTable[n + 1] = s

\* f"user:{user_id}"
UserKey(user_id) == Repr(user_id)

\* hset(user_key, mapping=user): the four fields as text.
EncodeHash(user) ==
    [id |-> Repr(user.id), name |-> user.name, email |-> user.email,
     created_at |-> Repr(user.created_at)]

\* The record get_users / get_user rebuild from hgetall.
DecodeHash(h) ==
    [id |-> ParseNum(h.id), name |-> h.name, email |-> h.email,
     created_at |-> ParseNum(h.created_at)]

\* HSET creates the key without expiry, or overwrites the fields and keeps
\* the expiry the key has.
HSet(store, key, user) ==
    IF key \in DOMAIN store
    THEN [store EXCEPT ![key].hash = EncodeHash(user)]
    ELSE [k \in DOMAIN store \cup {key} |->
            IF k = key THEN [hash |-> EncodeHash(user), ttl |-> <<>>] ELSE store[k]]

Expire(store, key, seconds) ==
    IF key \in DOMAIN store THEN [store EXCEPT ![key].ttl = <<seconds>>] ELSE store

\* A DEL that removes nothing.
DelNothing(store, key) == store

Del(store, key) == [k \in DOMAIN store \ {key} |-> store[k]]

\* dict assignment and del on memory_users
DictSet(d, k, v) == [x \in DOMAIN d \cup {k} |-> IF x = k THEN v ELSE d[x]]

DictDel(d, k) == [x \in DOMAIN d \ {k} |-> d[x]]

\* All the orders in which a finite set can be listed.
Orders(S) ==
    {s \in [1..Cardinality(S) -> S] : \A i, j \in 1..Cardinality(S) : s[i] = s[j] => i = j}

\* Which redis call of a handler fails: 0 none, n the n-th. Fallback makes no
\* call; with the store down the first call fails; with it up any call may
\* still time out (socket_timeout=2).
IOChoices(n) ==
    IF ~redis_client THEN {0} ELSE IF ~redis_up THEN {1} ELSE 0..n

Resp(op, req, id, status, body, error) ==
    [op |-> op, req |-> req, id |-> id, status |-> status, users |-> body,
     count |-> 0, error |-> error]

\* The body of a users listing: the list and its count.
ListResp(body, count) ==
    [Resp("list", EmptyObj, <<>>, 200, body, "") EXCEPT !.count = count]

NoResp == Resp("none", EmptyObj, <<>>, 0, <<>>, "")

----------------------------------------------------------------------------
\* Database service handlers. Each constrains dbvars'.

Stored(user_id) ==
    IF redis_client THEN UserKey(user_id) \in DOMAIN redis_users
    ELSE user_id \in DOMAIN memory_users

\* GET /database/users
DbGetUsers(io) ==
    /\ UNCHANGED dbstore
    /\ io_error' = (io # 0)
    /\ IF redis_client
       THEN IF io # 0
            THEN db_resp' = Resp("list", EmptyObj, <<>>, 500, <<>>, "Failed to fetch users")
            ELSE \E order \in Orders(DOMAIN redis_users) :
                    db_resp' = ListResp([i \in 1..Len(order) |->
                                            DecodeHash(redis_users[order[i]].hash)],
                                        Len(order))
       ELSE \E order \in Orders(DOMAIN memory_users) :
               db_resp' = ListResp([i \in 1..Len(order) |-> memory_users[order[i]]],
                                   Len(order))

\* POST /database/users
DbCreateUser(data, t, io) ==
    IF data = EmptyObj \/ "name" \notin DOMAIN data
    THEN /\ db_resp' = Resp("create", data, <<>>, 400, <<>>, "Name is required")
         /\ io_error' = FALSE
         /\ UNCHANGED dbstore
    ELSE LET user_id == Get(data, "id", memory_counter)
             user == [id |-> user_id, name |-> data.name,
                      email |-> Get(data, "email", ""),
                      created_at |-> Get(data, "created_at", t)]
             user_key == UserKey(user_id)
         IN  IF redis_client
             THEN /\ UNCHANGED <<redis_misc, memory_users, memory_counter>>
                  /\ io_error' = (io # 0)
                  /\ CASE io = 1 ->
                            /\ UNCHANGED <<redis_users, inserted, deleted>>
                            /\ db_resp' = Resp("create", data, <<>>, 500, <<>>, "Failed to create user")
                       [] io = 2 ->
                            /\ redis_users' = HSet(redis_users, user_key, user)
                            /\ inserted' = inserted \cup {user_id}
                            /\ deleted' = deleted \ {user_id}
                            /\ db_resp' = Resp("create", data, <<>>, 500, <<>>, "Failed to create user")
                       [] OTHER ->
                            /\ redis_users' = Expire(HSet(redis_users, user_key, user),
                                                     user_key, EXPIRE_SECONDS)
                            /\ inserted' = inserted \cup {user_id}
                            /\ deleted' = deleted \ {user_id}
                            /\ db_resp' = Resp("create", data, <<>>, 201, <<user>>, "")
             ELSE /\ UNCHANGED <<redis_users, redis_misc>>
                  /\ io_error' = FALSE
                  /\ memory_users' = DictSet(memory_users, user_id, user)
                  /\ memory_counter' = NextCounter(memory_counter, user_id)
                  /\ inserted' = inserted \cup {user_id}
                  /\ deleted' = deleted \ {user_id}
                  /\ db_resp' = Resp("create", data, <<>>, 201, <<user>>, "")

\* What get_user finds for user_id: <<>> or the one record.
Lookup(user_id) ==
    IF redis_client
    THEN IF UserKey(user_id) \notin DOMAIN redis_users THEN <<>>
         ELSE <<DecodeHash(redis_users[UserKey(user_id)].hash)>>
    ELSE IF user_id \notin DOMAIN memory_users THEN <<>>
         ELSE <<memory_users[user_id]>>

\* A get_user whose except branch answers from the in-memory store.
DbGetUserFallsBack(user_id, io) ==
    /\ UNCHANGED dbstore
    /\ io_error' = (io # 0)
    /\ IF io # 0
       THEN IF user_id \notin DOMAIN memory_users
            THEN db_resp' = Resp("get", EmptyObj, <<user_id>>, 404, <<>>, "User not found")
            ELSE db_resp' = Resp("get", EmptyObj, <<user_id>>, 200, <<memory_users[user_id]>>, "")
       ELSE IF Lookup(user_id) = <<>>
            THEN db_resp' = Resp("get", EmptyObj, <<user_id>>, 404, <<>>, "User not found")
            ELSE db_resp' = Resp("get", EmptyObj, <<user_id>>, 200, Lookup(user_id), "")

\* GET /database/users/<int:user_id>
DbGetUser(user_id, io) ==
    /\ UNCHANGED dbstore
    /\ io_error' = (io # 0)
    /\ IF io # 0
       THEN db_resp' = Resp("get", EmptyObj, <<user_id>>, 500, <<>>, "Failed to fetch user")
       ELSE IF Lookup(user_id) = <<>>
            THEN db_resp' = Resp("get", EmptyObj, <<user_id>>, 404, <<>>, "User not found")
            ELSE db_resp' = Resp("get", EmptyObj, <<user_id>>, 200, Lookup(user_id), "")

\* DELETE /database/users/<int:user_id>
DbDeleteUser(user_id, io) ==
    IF redis_client
    THEN /\ UNCHANGED <<redis_misc, memory_users, memory_counter, inserted>>
         /\ CASE io = 1 ->
                   /\ UNCHANGED <<redis_users, deleted>>
                   /\ io_error' = TRUE
                   /\ db_resp' = Resp("delete", EmptyObj, <<user_id>>, 500, <<>>, "Failed to delete user")
              [] UserKey(user_id) \notin DOMAIN redis_users ->
                   /\ UNCHANGED <<redis_users, deleted>>
                   /\ io_error' = FALSE
                   /\ db_resp' = Resp("delete", EmptyObj, <<user_id>>, 404, <<>>, "User not found")
              [] io = 2 ->
                   /\ UNCHANGED <<redis_users, deleted>>
                   /\ io_error' = TRUE
                   /\ db_resp' = Resp("delete", EmptyObj, <<user_id>>, 500, <<>>, "Failed to delete user")
              [] OTHER ->
                   /\ redis_users' = Del(redis_users, UserKey(user_id))
                   /\ deleted' = deleted \cup {user_id}
                   /\ io_error' = FALSE
                   /\ db_resp' = Resp("delete", EmptyObj, <<user_id>>, 200, <<>>, "")
    ELSE /\ UNCHANGED <<redis_users, redis_misc, memory_counter, inserted>>
         /\ io_error' = FALSE
         /\ IF user_id \notin DOMAIN memory_users
            THEN /\ UNCHANGED <<memory_users, deleted>>
                 /\ db_resp' = Resp("delete", EmptyObj, <<user_id>>, 404, <<>>, "User not found")
            ELSE /\ memory_users' = DictDel(memory_users, user_id)
                 /\ deleted' = deleted \cup {user_id}
                 /\ db_resp' = Resp("delete", EmptyObj, <<user_id>>, 200, <<>>, "")

----------------------------------------------------------------------------
\* Fault catalog of the database service.

DbCatalog ==
    {"redis_connection_error", "redis_timeout", "redis_memory_error", "data_corruption",
     "serialization_error", "key_not_found", "transaction_rollback",
     "connection_pool_exhausted", "disk_full", "permission_denied"}

\* An exception no handler catches: Flask answers 500.
Raised(op, error_type, exc) == Resp(op, [type |-> error_type], <<>>, 500, <<>>, exc)

Returned(op, error_type) == Resp(op, [type |-> error_type], <<>>, 200, <<>>, "")

\* redis_client.pipeline(): a buffer of commands local to the request. multi()
\* and set() only queue; the store sees nothing before execute().
NoPipe == [pc |-> "idle", command_stack |-> <<>>, explicit_transaction |-> FALSE]

Pipeline == [pc |-> "multi", command_stack |-> <<>>, explicit_transaction |-> FALSE]

\* The keys the transaction sets, in order.
TxKeys == <<"tx_key1", "tx_key2">>

\* trigger_database_error(error_type)
trigger_database_error(error_type, io) ==
    /\ UNCHANGED <<redis_users, memory_users, memory_counter, inserted, deleted>>
    /\ pipe' = IF error_type = "transaction_rollback" /\ redis_client THEN Pipeline
               ELSE pipe
    /\ io_error' = (redis_client /\ io # 0
                    /\ error_type \in {"redis_timeout", "redis_memory_error",
                                       "data_corruption", "key_not_found"})
    /\ CASE error_type = "redis_connection_error" ->
              /\ db_resp' = Raised("trigger", error_type, "ConnectionError")
              /\ UNCHANGED redis_misc
         [] error_type = "redis_timeout" ->
              /\ db_resp' = Raised("trigger", error_type,
                                   IF redis_client /\ ~redis_up THEN "ConnectionError"
                                   ELSE "TimeoutError")
              /\ UNCHANGED redis_misc
         [] error_type = "redis_memory_error" ->
              IF redis_client /\ io = 0
              THEN /\ redis_misc' = redis_misc \cup {"large_key"}
                   /\ db_resp' = Returned("trigger", error_type)
              ELSE /\ db_resp' = Raised("trigger", error_type, "MemoryError")
                   /\ UNCHANGED redis_misc
         [] error_type = "data_corruption" ->
              IF redis_client
              THEN CASE io = 1 ->
                          /\ db_resp' = Raised("trigger", error_type, "ConnectionError")
                          /\ UNCHANGED redis_misc
                     [] io = 2 ->
                          /\ redis_misc' = redis_misc \cup {"corrupted_user"}
                          /\ db_resp' = Raised("trigger", error_type, "ConnectionError")
                     [] OTHER ->
                          /\ redis_misc' = redis_misc \cup {"corrupted_user"}
                          /\ db_resp' = Raised("trigger", error_type, "JSONDecodeError")
              ELSE /\ db_resp' = Raised("trigger", error_type, "ValueError")
                   /\ UNCHANGED redis_misc
         [] error_type = "serialization_error" ->
              /\ db_resp' = Raised("trigger", error_type, "TypeError")
              /\ UNCHANGED redis_misc
         [] error_type = "key_not_found" ->
              /\ UNCHANGED redis_misc
              /\ IF redis_client /\ io # 0
                 THEN db_resp' = Raised("trigger", error_type, "ConnectionError")
                 ELSE IF redis_client /\ "critical_config_key" \in redis_misc
                      THEN db_resp' = Returned("trigger", error_type)
                      ELSE db_resp' = Raised("trigger", error_type, "KeyError")
         [] error_type = "transaction_rollback" ->
              \* External: the pipeline is opened and the steps TxMulti .. TxRollback
              \* follow; the request is answered by TxRollback.
              /\ db_resp' = IF redis_client THEN NoResp
                            ELSE Raised("trigger", error_type, "RuntimeError")
              /\ UNCHANGED redis_misc
         [] error_type = "connection_pool_exhausted" ->
              /\ db_resp' = Raised("trigger", error_type, "ConnectionError")
              /\ UNCHANGED redis_misc
         [] error_type = "disk_full" ->
              /\ db_resp' = Raised("trigger", error_type, "OSError")
              /\ UNCHANGED redis_misc
         [] error_type = "permission_denied" ->
              /\ db_resp' = Raised("trigger", error_type, "PermissionError")
              /\ UNCHANGED redis_misc
         [] OTHER ->
              /\ db_resp' = Raised("trigger", error_type, "ValueError")
              /\ UNCHANGED redis_misc

\* GET /database/errors/test?type=<error_type>
test_database_errors(error_type, io) ==
    IF error_type = "list"
    THEN /\ db_resp' = Returned("catalog", error_type)
         /\ io_error' = FALSE
         /\ UNCHANGED <<dbstore, pipe>>
    ELSE trigger_database_error(error_type, io)

\* The steps of the transaction_rollback scenario in External mode.
txfixed == <<redis_client, redis_up, apivars, th, loop>>

\* pipe.multi()
TxMulti ==
    /\ pipe.pc = "multi"
    /\ pipe' = [pipe EXCEPT !.pc = "set", !.explicit_transaction = TRUE]
    /\ UNCHANGED <<dbvars, txfixed>>

\* pipe.set('tx_key1', 'value1'); pipe.set('tx_key2', 'value2')
TxSet ==
    /\ pipe.pc = "set"
    /\ LET stack == Append(pipe.command_stack, TxKeys[Len(pipe.command_stack) + 1])
       IN  pipe' = [pipe EXCEPT !.command_stack = stack,
                                !.pc = IF Len(stack) = Len(TxKeys) THEN "raise" ELSE "set"]
    /\ UNCHANGED <<dbvars, txfixed>>

\* A transaction that runs execute() before it fails: MULTI, the queued
\* commands and EXEC go to the store, which applies them when it answers.
TxFailAfterExecute ==
    /\ pipe.pc = "raise"
    /\ redis_misc' = IF redis_up
                     THEN redis_misc \cup {pipe.command_stack[i] :
                                              i \in 1..Len(pipe.command_stack)}
                     ELSE redis_misc
    /\ pipe' = [pipe EXCEPT !.pc = "except", !.command_stack = <<>>]
    /\ UNCHANGED <<redis_users, memory_users, memory_counter, inserted, deleted,
                   db_resp, io_error, txfixed>>

\* raise Exception("Transaction failed at step 2"): execute() is not reached.
TxFail ==
    /\ pipe.pc = "raise"
    /\ pipe' = [pipe EXCEPT !.pc = "except"]
    /\ UNCHANGED <<dbvars, txfixed>>

\* except: pipe.reset(); raise RuntimeError(...)
TxRollback ==
    /\ pipe.pc = "except"
    /\ pipe' = NoPipe
    /\ db_resp' = Raised("trigger", "transaction_rollback", "RuntimeError")
    /\ io_error' = FALSE
    /\ UNCHANGED <<dbstore, txfixed>>

\* Scenario names a diagnostic request carries.
DbErrorTypes == DbCatalog \cup {"list", "unknown_name"}

----------------------------------------------------------------------------
\* The api service. A write is two steps: the local write, then the call to
\* the database service and the response.

Idle == [at |-> "idle", req |-> EmptyObj, user |-> <<>>, id |-> <<>>]

Range(seq) == {seq[i] : i \in 1..Len(seq)}

\* How a call to the database service can end:
\*   ok           the handler runs and its response arrives
\*   late         the handler runs, the response misses the timeout
\*   timeout      no answer within the timeout, the handler never ran
\*   refused      connection error
\*   bad_gateway  an intermediary answers 502
\*   garbled      200 with a body that is not JSON
\*   no_users     200 with a JSON object that has no "users"
Net == {"ok", "late", "timeout", "refused", "bad_gateway", "garbled", "no_users"}

Reaches(net) == net \in {"ok", "late"}

NoCall == [net |-> "none", status |-> 0]

\* The database service gets no request: db_resp shows no response.
DbNotCalled ==
    /\ db_resp' = NoResp
    /\ io_error' = FALSE
    /\ UNCHANGED dbstore

\* What requests.get/post/delete hands back: the status, or 0 when it raises.
Outcome(net, resp) ==
    [net |-> net,
     status |-> CASE net = "ok" -> resp.status
                  [] net = "bad_gateway" -> 502
                  [] net \in {"garbled", "no_users"} -> 200
                  [] OTHER -> 0]

\* A get_users without the try/except around the call: a failed call is a 502.
ApiGetUsersUnguarded(net, io) ==
    /\ api_pc = Idle
    /\ IF Reaches(net) THEN DbGetUsers(io) ELSE DbNotCalled
    /\ downstream' = Outcome(net, db_resp')
    /\ api_resp' =
         IF net = "ok" /\ db_resp'.status = 200
         THEN ListResp(users \o db_resp'.users, Len(users \o db_resp'.users))
         ELSE Resp("list", EmptyObj, <<>>, 502, <<>>, "downstream failed")
    /\ UNCHANGED <<users, user_counter, api_pc>>

\* GET /api/users
ApiGetUsers(net, io) ==
    /\ api_pc = Idle
    /\ IF Reaches(net) THEN DbGetUsers(io) ELSE DbNotCalled
    /\ downstream' = Outcome(net, db_resp')
    /\ LET all_users == IF net = "ok" /\ db_resp'.status = 200
                        THEN users \o db_resp'.users
                        ELSE users
       IN  api_resp' = ListResp(all_users, Len(all_users))
    /\ UNCHANGED <<users, user_counter, api_pc>>

\* POST /api/users, up to the call downstream
ApiCreateUser(data, t) ==
    /\ api_pc = Idle
    /\ downstream' = NoCall
    /\ DbNotCalled
    /\ IF data = EmptyObj \/ "name" \notin DOMAIN data
       THEN /\ api_resp' = Resp("create", data, <<>>, 400, <<>>, "Name is required")
            /\ UNCHANGED <<users, user_counter, api_pc>>
       ELSE LET user == [id |-> user_counter, name |-> data.name,
                         email |-> Get(data, "email", ""), created_at |-> t]
            IN  /\ users' = Append(users, user)
                /\ user_counter' = user_counter + 1
                /\ api_pc' = [at |-> "create", req |-> data, user |-> <<user>>, id |-> <<>>]
                /\ api_resp' = NoResp

\* A create that gives up, and takes the user back, when the call fails.
ApiForwardCreateStrict(net, t, io) ==
    /\ api_pc.at = "create"
    /\ IF Reaches(net) THEN DbCreateUser(api_pc.user[1], t, io) ELSE DbNotCalled
    /\ downstream' = Outcome(net, db_resp')
    /\ IF net = "ok" /\ db_resp'.status = 201
       THEN /\ api_resp' = Resp("create", api_pc.req, <<>>, 201, api_pc.user, "")
            /\ UNCHANGED users
       ELSE /\ api_resp' = Resp("create", api_pc.req, <<>>, 502, <<>>, "downstream failed")
            /\ users' = SubSeq(users, 1, Len(users) - 1)
    /\ api_pc' = Idle
    /\ UNCHANGED user_counter

\* POST /api/users, the call downstream and the response
ApiForwardCreate(net, t, io) ==
    /\ api_pc.at = "create"
    /\ IF Reaches(net) THEN DbCreateUser(api_pc.user[1], t, io) ELSE DbNotCalled
    /\ downstream' = Outcome(net, db_resp')
    /\ api_resp' = Resp("create", api_pc.req, <<>>, 201, api_pc.user, "")
    /\ api_pc' = Idle
    /\ UNCHANGED <<users, user_counter>>

\* next((u for u in users if u['id'] == user_id), None)
Find(user_id) == SelectSeq(users, LAMBDA u : u.id = user_id)

\* GET /api/users/<int:user_id>
ApiGetUser(user_id) ==
    /\ api_pc = Idle
    /\ downstream' = NoCall
    /\ api_resp' = IF Find(user_id) = <<>>
                   THEN Resp("get", EmptyObj, <<user_id>>, 404, <<>>, "User not found")
                   ELSE Resp("get", EmptyObj, <<user_id>>, 200, <<Head(Find(user_id))>>, "")
    /\ DbNotCalled
    /\ UNCHANGED <<users, user_counter, api_pc>>

\* DELETE /api/users/<int:user_id>, up to the call downstream
ApiDeleteUser(user_id) ==
    /\ api_pc = Idle
    /\ downstream' = NoCall
    /\ DbNotCalled
    /\ UNCHANGED user_counter
    /\ IF Find(user_id) = <<>>
       THEN /\ api_resp' = Resp("delete", EmptyObj, <<user_id>>, 404, <<>>, "User not found")
            /\ UNCHANGED <<users, api_pc>>
       ELSE /\ users' = SelectSeq(users, LAMBDA u : u.id # user_id)
            /\ api_pc' = [at |-> "delete", req |-> EmptyObj, user |-> <<>>, id |-> <<user_id>>]
            /\ api_resp' = NoResp

\* DELETE /api/users/<int:user_id>, the call downstream and the response
ApiForwardDelete(net, io) ==
    /\ api_pc.at = "delete"
    /\ IF Reaches(net) THEN DbDeleteUser(api_pc.id[1], io) ELSE DbNotCalled
    /\ downstream' = Outcome(net, db_resp')
    /\ api_resp' = Resp("delete", EmptyObj, api_pc.id, 200, <<>>, "")
    /\ api_pc' = Idle
    /\ UNCHANGED <<users, user_counter>>

\* Fault catalog of the api service.
ApiCatalog ==
    {"division_by_zero", "null_pointer", "index_out_of_bounds", "type_error",
     "infinite_loop", "memory_error", "file_not_found", "json_decode_error",
     "network_timeout", "database_error", "validation_error", "custom_exception",
     "async_error"}

\* trigger_specific_error(error_type): the responses it can end with. The
\* outcomes of infinite_loop, memory_error and network_timeout depend on the
\* host: the thread the handler runs on, the memory left, the network.
\* For infinite_loop these are the answers the steps infinite_loop .. LoopReturn
\* end with.
trigger_specific_error(error_type) ==
    CASE error_type = "division_by_zero" -> {Raised("trigger", error_type, "ZeroDivisionError")}
      [] error_type = "null_pointer" -> {Raised("trigger", error_type, "AttributeError")}
      [] error_type = "index_out_of_bounds" -> {Raised("trigger", error_type, "IndexError")}
      [] error_type = "type_error" -> {Raised("trigger", error_type, "ValueError")}
      [] error_type = "infinite_loop" ->
           {Returned("trigger", error_type), Raised("trigger", error_type, "TimeoutError"),
            Raised("trigger", error_type, "ValueError")}
      [] error_type = "memory_error" ->
           {Returned("trigger", error_type), Raised("trigger", error_type, "MemoryError")}
      [] error_type = "file_not_found" -> {Raised("trigger", error_type, "FileNotFoundError")}
      [] error_type = "json_decode_error" -> {Raised("trigger", error_type, "JSONDecodeError")}
      [] error_type = "network_timeout" ->
           {Raised("trigger", error_type, "Timeout"),
            Raised("trigger", error_type, "ConnectionError")}
      [] error_type = "database_error" -> {Raised("trigger", error_type, "Exception")}
      [] error_type = "validation_error" -> {Raised("trigger", error_type, "ValueError")}
      [] error_type = "custom_exception" ->
           {Raised("trigger", error_type, "CustomApplicationError")}
      [] error_type = "async_error" -> {Raised("trigger", error_type, "RuntimeError")}
      [] OTHER -> {Raised("trigger", error_type, "ValueError")}

\* The busy-loop of the infinite_loop scenario: where the request is, the
\* loop's counter, the seconds left on the alarm (0: no alarm set).
NoLoop == [pc |-> "idle", counter |-> 0, alarm |-> 0]

\* The infinite_loop branch up to the loop. signal.signal() raises ValueError
\* on any thread but the main one; on the main thread the alarm is set and the
\* loop starts, and the request is answered by one of the steps below.
infinite_loop(main_thread) ==
    IF main_thread
    THEN /\ loop' = [pc |-> "while", counter |-> 0, alarm |-> ALARM_SECONDS]
         /\ api_resp' = NoResp
    ELSE /\ api_resp' = Raised("trigger", "infinite_loop", "ValueError")
         /\ UNCHANGED loop

\* GET /api/errors/test?type=<error_type>
test_errors(error_type) ==
    /\ api_pc = Idle
    /\ loop = NoLoop
    /\ downstream' = NoCall
    /\ IF error_type = "infinite_loop"
       THEN \E main_thread \in BOOLEAN : infinite_loop(main_thread)
       ELSE /\ api_resp' \in (IF error_type = "list"
                               THEN {Returned("catalog", error_type)}
                               ELSE trigger_specific_error(error_type))
            /\ UNCHANGED loop
    /\ DbNotCalled
    /\ UNCHANGED <<users, user_counter, api_pc>>

loopfixed ==
    <<redis_client, redis_up, dbvars, users, user_counter, api_pc, downstream, th, pipe>>

\* while True: counter += 1; if counter > 1000000: break
\* One step runs up to LoopChunk iterations.
LoopIterate ==
    /\ loop.pc = "while"
    /\ LET counter == IF loop.counter + LoopChunk > SAFETY_NET THEN SAFETY_NET + 1
                      ELSE loop.counter + LoopChunk
       IN  loop' = [loop EXCEPT !.counter = counter,
                                !.pc = IF counter > SAFETY_NET THEN "finally" ELSE "while"]
    /\ UNCHANGED <<api_resp, loopfixed>>

\* A second of wall-clock time passes with the alarm set. How many iterations
\* fit in a second is the host's business.
ClockTick ==
    /\ loop.pc \in {"while", "finally"}
    /\ loop.alarm > 1
    /\ loop' = [loop EXCEPT !.alarm = @ - 1]
    /\ UNCHANGED <<api_resp, loopfixed>>

\* SIGALRM: timeout_handler raises TimeoutError in the handler, in the loop or
\* on the way into the finally block; finally clears the alarm and the
\* exception leaves the handler.
timeout_handler ==
    /\ loop.pc \in {"while", "finally"}
    /\ loop.alarm = 1
    /\ loop' = NoLoop
    /\ api_resp' = Raised("trigger", "infinite_loop", "TimeoutError")
    /\ UNCHANGED loopfixed

\* finally: signal.alarm(0); then return jsonify({'error': 'Infinite loop
\* detected and stopped'}), status 200.
LoopReturn ==
    /\ loop.pc = "finally"
    /\ loop' = NoLoop
    /\ api_resp' = Returned("trigger", "infinite_loop")
    /\ UNCHANGED loopfixed

ApiErrorTypes == ApiCatalog \cup {"list", "unknown_name"}

----------------------------------------------------------------------------
\* Requests clients send.

Bodies ==
    {EmptyObj, [name |-> ""], [email |-> "e"],
     [name |-> "Ada", email |-> "e", created_at |-> 5]}

WithId(b, i) == [f \in DOMAIN b \cup {"id"} |-> IF f = "id" THEN i ELSE b[f]]

Named == {b \in Bodies : "name" \in DOMAIN b}

Candidates == Bodies \cup {WithId(b, i) : b \in Named, i \in 1..MaxId}

PathIds == 1..MaxId

Threads == {"t1", "t2"}

IdleThread ==
    [pc |-> "idle", data |-> EmptyObj, now |-> 0, user |-> <<>>, loaded |-> <<>>,
     path_id |-> <<>>, resp |-> NoResp]

----------------------------------------------------------------------------
Init ==
    /\ redis_up \in BOOLEAN
    /\ redis_client = redis_up
    /\ redis_users = EmptyObj
    /\ redis_misc = {}
    /\ memory_users = EmptyObj
    /\ memory_counter = 1
    /\ inserted = {}
    /\ deleted = {}
    /\ db_resp = NoResp
    /\ io_error = FALSE
    /\ users = <<>>
    /\ user_counter = 1
    /\ api_pc = Idle
    /\ api_resp = NoResp
    /\ downstream = NoCall
    /\ th = [t \in Threads |-> IdleThread]
    /\ pipe = NoPipe
    /\ loop = NoLoop

\* Environment: the external store goes away, comes back, drops an expired key.
\* The database service takes one request at a time: a request waits while the
\* pipeline of the one before it is open.
RedisOutage ==
    /\ redis_up
    /\ redis_up' = FALSE
    /\ UNCHANGED <<redis_client, dbvars, apivars, th, pipe, loop>>

RedisRecover ==
    /\ ~redis_up
    /\ redis_up' = TRUE
    /\ UNCHANGED <<redis_client, dbvars, apivars, th, pipe, loop>>

KeyExpires ==
    \E k \in DOMAIN redis_users :
        /\ redis_users[k].ttl # <<>>
        /\ redis_users' = Del(redis_users, k)
        /\ UNCHANGED <<redis_client, redis_up, redis_misc, memory_users, memory_counter,
                       inserted, deleted, db_resp, io_error, apivars, th, pipe, loop>>

\* A get_users that drops the client when a call fails.
ClientGetUsersReprobe ==
    /\ pipe = NoPipe
    /\ \E io \in IOChoices(2) : DbGetUsers(io)
    /\ redis_client' = (redis_client /\ ~io_error')
    /\ UNCHANGED <<redis_up, apivars, th, pipe, loop>>

ClientGetUsers ==
    /\ pipe = NoPipe
    /\ \E io \in IOChoices(2) : DbGetUsers(io)
    /\ UNCHANGED <<redis_client, redis_up, apivars, th, pipe, loop>>

ClientCreateUser ==
    /\ pipe = NoPipe
    /\ memory_counter <= MaxId
    /\ \E data \in Candidates, t \in Times, io \in IOChoices(2) : DbCreateUser(data, t, io)
    /\ UNCHANGED <<redis_client, redis_up, apivars, th, pipe, loop>>

ClientGetUser ==
    /\ pipe = NoPipe
    /\ \E user_id \in PathIds, io \in IOChoices(1) : DbGetUser(user_id, io)
    /\ UNCHANGED <<redis_client, redis_up, apivars, th, pipe, loop>>

ClientDeleteUser ==
    /\ pipe = NoPipe
    /\ \E user_id \in PathIds, io \in IOChoices(2) : DbDeleteUser(user_id, io)
    /\ UNCHANGED <<redis_client, redis_up, apivars, th, pipe, loop>>

ClientTestErrors ==
    /\ pipe = NoPipe
    /\ \E error_type \in DbErrorTypes, io \in IOChoices(2) :
          test_database_errors(error_type, io)
    /\ UNCHANGED <<redis_client, redis_up, apivars, th, loop>>

Next ==
    \/ RedisOutage
    \/ RedisRecover
    \/ KeyExpires
    \/ ClientGetUsers
    \/ ClientCreateUser
    \/ ClientGetUser
    \/ ClientDeleteUser
    \/ ClientTestErrors
    \/ TxMulti
    \/ TxSet
    \/ TxFail
    \/ TxRollback

Spec == Init /\ [][Next]_vars

\* Requests to the api service.
CallGetUsers ==
    /\ \E net \in Net, io \in IOChoices(2) : ApiGetUsers(net, io)
    /\ UNCHANGED <<redis_client, redis_up, th, pipe, loop>>

CallCreateUser ==
    /\ user_counter <= MaxId
    /\ \E data \in Bodies, t \in Times : ApiCreateUser(data, t)
    /\ UNCHANGED <<redis_client, redis_up, th, pipe, loop>>

CallForwardCreate ==
    /\ \E net \in Net, t \in Times, io \in IOChoices(2) : ApiForwardCreate(net, t, io)
    /\ UNCHANGED <<redis_client, redis_up, th, pipe, loop>>

CallGetUser ==
    /\ \E user_id \in PathIds : ApiGetUser(user_id)
    /\ UNCHANGED <<redis_client, redis_up, th, pipe, loop>>

CallDeleteUser ==
    /\ \E user_id \in PathIds : ApiDeleteUser(user_id)
    /\ UNCHANGED <<redis_client, redis_up, th, pipe, loop>>

CallForwardDelete ==
    /\ \E net \in Net, io \in IOChoices(2) : ApiForwardDelete(net, io)
    /\ UNCHANGED <<redis_client, redis_up, th, pipe, loop>>

CallTestErrors ==
    /\ \E error_type \in ApiErrorTypes : test_errors(error_type)
    /\ UNCHANGED <<redis_client, redis_up, th, pipe>>

NextApi ==
    \/ RedisOutage
    \/ RedisRecover
    \/ KeyExpires
    \/ CallGetUsers
    \/ CallCreateUser
    \/ CallForwardCreate
    \/ CallGetUser
    \/ CallDeleteUser
    \/ CallForwardDelete

SpecApi == Init /\ [][NextApi]_vars

\* Diagnostic requests to the two fault catalogs.
NextFaults ==
    \/ RedisOutage
    \/ RedisRecover
    \/ ClientTestErrors
    \/ CallTestErrors
    \/ TxMulti
    \/ TxSet
    \/ TxFail
    \/ TxRollback
    \/ LoopIterate
    \/ ClockTick
    \/ timeout_handler
    \/ LoopReturn

SpecFaults == Init /\ [][NextFaults]_vars

----------------------------------------------------------------------------
\* The database service in Fallback mode with one request per thread in
\* flight (app.run serves each request on its own thread). A step is one
\* access to memory_users or memory_counter; the interpreter may switch
\* threads between any two.

ThreadCreate(t, data, now) ==
    /\ th[t].pc = "idle"
    /\ IF data = EmptyObj \/ "name" \notin DOMAIN data
       THEN th' = [th EXCEPT ![t] = [IdleThread EXCEPT
                      !.resp = Resp("create", data, <<>>, 400, <<>>, "Name is required")]]
       ELSE th' = [th EXCEPT ![t] = [IdleThread EXCEPT
                      !.pc = "line95", !.data = data, !.now = now]]
    /\ UNCHANGED <<memory_users, memory_counter, inserted, deleted>>

\* user_id = data.get('id', memory_counter); user = {...}
ThreadLine95(t) ==
    /\ th[t].pc = "line95"
    /\ LET data == th[t].data
           user_id == Get(data, "id", memory_counter)
           user == [id |-> user_id, name |-> data.name,
                    email |-> Get(data, "email", ""),
                    created_at |-> Get(data, "created_at", th[t].now)]
       IN  th' = [th EXCEPT ![t].pc = "line110", ![t].user = <<user>>]
    /\ UNCHANGED <<memory_users, memory_counter, inserted, deleted>>

\* memory_users[user_id] = user
ThreadLine110(t) ==
    /\ th[t].pc = "line110"
    /\ memory_users' = DictSet(memory_users, th[t].user[1].id, th[t].user[1])
    /\ inserted' = inserted \cup {th[t].user[1].id}
    /\ deleted' = deleted \ {th[t].user[1].id}
    /\ th' = [th EXCEPT ![t].pc = "line111_load"]
    /\ UNCHANGED memory_counter

\* memory_counter = max(memory_counter, user_id) + 1: the load
ThreadLine111Load(t) ==
    /\ th[t].pc = "line111_load"
    /\ th' = [th EXCEPT ![t].pc = "line111_store", ![t].loaded = <<memory_counter>>]
    /\ UNCHANGED <<memory_users, memory_counter, inserted, deleted>>

\* memory_counter = max(memory_counter, user_id) + 1: the store, and the 201
ThreadLine111Store(t) ==
    /\ th[t].pc = "line111_store"
    /\ memory_counter' = NextCounter(th[t].loaded[1], th[t].user[1].id)
    /\ th' = [th EXCEPT ![t] = [IdleThread EXCEPT
                 !.resp = Resp("create", th[t].data, <<>>, 201, th[t].user, "")]]
    /\ UNCHANGED <<memory_users, inserted, deleted>>

ThreadDelete(t, user_id) ==
    /\ th[t].pc = "idle"
    /\ th' = [th EXCEPT ![t] = [IdleThread EXCEPT !.pc = "line168", !.path_id = <<user_id>>]]
    /\ UNCHANGED <<memory_users, memory_counter, inserted, deleted>>

\* if user_id not in memory_users: 404
ThreadLine168(t) ==
    /\ th[t].pc = "line168"
    /\ IF th[t].path_id[1] \notin DOMAIN memory_users
       THEN th' = [th EXCEPT ![t] = [IdleThread EXCEPT
                      !.resp = Resp("delete", EmptyObj, th[t].path_id, 404, <<>>, "User not found")]]
       ELSE th' = [th EXCEPT ![t].pc = "line170"]
    /\ UNCHANGED <<memory_users, memory_counter, inserted, deleted>>

\* del memory_users[user_id]: a KeyError when another thread removed it
ThreadLine170(t) ==
    /\ th[t].pc = "line170"
    /\ UNCHANGED <<memory_counter, inserted>>
    /\ IF th[t].path_id[1] \in DOMAIN memory_users
       THEN /\ memory_users' = DictDel(memory_users, th[t].path_id[1])
            /\ deleted' = deleted \cup {th[t].path_id[1]}
            /\ th' = [th EXCEPT ![t] = [IdleThread EXCEPT
                         !.resp = Resp("delete", EmptyObj, th[t].path_id, 200, <<>>, "")]]
       ELSE /\ UNCHANGED <<memory_users, deleted>>
            /\ th' = [th EXCEPT ![t] = [IdleThread EXCEPT
                         !.resp = Resp("delete", EmptyObj, th[t].path_id, 500, <<>>,
                                       "Failed to delete user")]]

concfixed ==
    <<redis_client, redis_up, redis_users, redis_misc, db_resp, io_error, apivars, pipe, loop>>

BeginCreate ==
    /\ memory_counter <= MaxId
    /\ \E t \in Threads, data \in Candidates, now \in Times : ThreadCreate(t, data, now)
    /\ UNCHANGED concfixed

ReadCounter == (\E t \in Threads : ThreadLine95(t)) /\ UNCHANGED concfixed

StoreUser == (\E t \in Threads : ThreadLine110(t)) /\ UNCHANGED concfixed

LoadCounter == (\E t \in Threads : ThreadLine111Load(t)) /\ UNCHANGED concfixed

StoreCounter == (\E t \in Threads : ThreadLine111Store(t)) /\ UNCHANGED concfixed

BeginDelete ==
    /\ \E t \in Threads, user_id \in PathIds : ThreadDelete(t, user_id)
    /\ UNCHANGED concfixed

CheckPresent == (\E t \in Threads : ThreadLine168(t)) /\ UNCHANGED concfixed

RemoveUser == (\E t \in Threads : ThreadLine170(t)) /\ UNCHANGED concfixed

NextConc ==
    \/ BeginCreate
    \/ ReadCounter
    \/ StoreUser
    \/ LoadCounter
    \/ StoreCounter
    \/ BeginDelete
    \/ CheckPresent
    \/ RemoveUser

InitConc == Init /\ ~redis_client

SpecConc == InitConc /\ [][NextConc]_vars

----------------------------------------------------------------------------
\* Properties of the database service (checked under Spec).

CrudOps == {"list", "create", "get", "delete"}

CaughtErrors ==
    {"Failed to fetch users", "Failed to create user", "Failed to fetch user",
     "Failed to delete user"}

\* C1: every create that carries a name and answers 201 returns an id that
\* no record written to this store before had, and a get of that id right
\* after it finds a record equal to the one returned.
C1_CreateIdUniqueAndReadable ==
    [][\A i \in 1..(MaxId + 1) :
         (db_resp'.op = "create" /\ db_resp'.status = 201 /\ db_resp'.users[1].id = i
          /\ ClientCreateUser)
            => (i \notin inserted /\ Lookup(i)' = db_resp'.users)]_vars

\* C2 as claimed: a get of an id deleted with 200 and not created since
\* answers 404; a delete of an id that is not stored answers 404 and leaves
\* the store as it was.
C2_DeleteThenGetIs404 ==
    /\ [](db_resp.op = "get" /\ db_resp.id[1] \in deleted => db_resp.status = 404)
    /\ [][\A i \in PathIds :
            (db_resp'.op = "delete" /\ db_resp'.id = <<i>> /\ ~Stored(i) /\ ClientDeleteUser)
               => (db_resp'.status = 404
                   /\ UNCHANGED <<redis_users, memory_users, memory_counter>>)]_vars

\* C2 as amended: such a get never returns the record: it answers 404, or 500
\* when in External mode a redis call of that get fails; a delete of an id
\* that is not stored answers 404, or 500 on such a failure, and leaves the
\* store as it was.
C2_DeleteThenGetNeverFinds ==
    /\ [](db_resp.op = "get" /\ db_resp.id[1] \in deleted
            => /\ db_resp.users = <<>>
               /\ \/ db_resp.status = 404
                  \/ db_resp.status = 500 /\ redis_client /\ io_error)
    /\ [][\A i \in PathIds :
            (db_resp'.op = "delete" /\ db_resp'.id = <<i>> /\ ~Stored(i) /\ ClientDeleteUser)
               => /\ \/ db_resp'.status = 404
                     \/ db_resp'.status = 500 /\ redis_client /\ io_error'
                  /\ UNCHANGED <<redis_users, memory_users, memory_counter>>]_vars

C2_Witness ==
    /\ db_resp.op = "get"
    /\ db_resp.id[1] \in deleted
    /\ db_resp.status = 404
    /\ inserted # {}

\* C3: the storage mode chosen at startup (External iff the ping succeeded)
\* is the same in every later state: no handler, fault scenario, outage or
\* recovery changes redis_client.
C3_ModeDecidedOnce == [][redis_client' = redis_client]_vars

C3_Witness ==
    /\ redis_client
    /\ ~redis_up
    /\ io_error
    /\ db_resp.op = "get"
    /\ db_resp.status = 500

\* C4: a diagnostic request naming a scenario that is not in the catalog is
\* answered with a 400-class UnknownScenario error.
C4_UnknownScenarioIs400 ==
    /\ (db_resp.op = "trigger" /\ db_resp.req.type \notin DbCatalog)
          => (db_resp.status \in 400..499 /\ db_resp.error = "UnknownScenario")
    /\ (api_resp.op = "trigger" /\ api_resp.req.type \notin ApiCatalog)
          => (api_resp.status \in 400..499 /\ api_resp.error = "UnknownScenario")

\* C8: in External mode a failed redis call inside list, create, get or
\* delete is answered 500 by that handler's except branch; the service goes
\* on serving, the mode stays External and the in-memory store and counter
\* are never touched.
C8_IOFailureIs500 ==
    /\ [](redis_client /\ io_error /\ db_resp.op \in CrudOps
            => /\ db_resp.status = 500
               /\ db_resp.error \in CaughtErrors
               /\ db_resp.users = <<>>
               /\ ENABLED ClientGetUser)
    /\ [](redis_client => memory_users = EmptyObj /\ memory_counter = 1)
    /\ [][redis_client /\ io_error' => redis_client']_vars

C8_Witness ==
    /\ redis_client
    /\ io_error
    /\ db_resp.op = "create"
    /\ db_resp.status = 500
    /\ DOMAIN redis_users # {}

\* C10: in Fallback mode, with requests handled one at a time, the counter
\* never decreases and exceeds every id ever inserted, deleted ones
\* included, so an id taken from the counter was never used before.
C10_CounterAboveEveryId ==
    /\ [](~redis_client => \A i \in inserted : memory_counter > i)
    /\ [][memory_counter' >= memory_counter]_vars
    /\ [][\A i \in 1..(MaxId + 1) :
            (~redis_client /\ db_resp'.op = "create" /\ db_resp'.status = 201
             /\ "id" \notin DOMAIN db_resp'.req /\ db_resp'.users[1].id = i
             /\ ClientCreateUser)
               => i \notin inserted]_vars

C10_Witness ==
    /\ ~redis_client
    /\ deleted # {}
    /\ db_resp.op = "create"
    /\ db_resp.status = 201
    /\ "id" \notin DOMAIN db_resp.req
    /\ db_resp.users[1].id > 1

----------------------------------------------------------------------------
\* Properties of the api service (checked under SpecApi).

NameMissing(req) == "name" \notin DOMAIN req \/ req.name = ""

\* C5: GET /api/users always answers 200 with count the length of the list;
\* when the call downstream times out, fails, answers other than 200 or has
\* no usable body the list is exactly the local users; when it answers 200
\* the list holds every local and every downstream record.
C5_ListMergedDegrades ==
    api_resp.op = "list" =>
        /\ api_resp.status = 200
        /\ api_resp.count = Len(api_resp.users)
        /\ (downstream.net # "ok" \/ downstream.status # 200) => api_resp.users = users
        /\ (downstream.net = "ok" /\ downstream.status = 200) =>
              /\ Range(users) \cup Range(db_resp.users) \subseteq Range(api_resp.users)
              /\ api_resp.count = Len(users) + Len(db_resp.users)

C5_Witness ==
    /\ api_resp.op = "list"
    /\ downstream.net = "refused"
    /\ users # <<>>
    /\ api_resp.status = 200

\* C6: a create whose name is absent or empty is answered 400, in the api
\* service and in the database service.
C6_NameRequiredNonEmpty ==
    /\ (api_resp.op = "create" /\ NameMissing(api_resp.req)) => api_resp.status = 400
    /\ (db_resp.op = "create" /\ NameMissing(db_resp.req)) => db_resp.status = 400

\* C7: POST and DELETE /api/users write the local list before the call
\* downstream is made, the call changes nothing local, and the response is
\* 201 with the local record, or 200, whatever the call's outcome: the
\* status depends on the request alone.
C7_LocalWriteFirst ==
    /\ [](api_pc.at = "create" => api_pc.user[1] \in Range(users))
    /\ [](api_pc.at = "delete" => Find(api_pc.id[1]) = <<>>)
    /\ [](api_resp.op = "create" =>
            IF "name" \in DOMAIN api_resp.req
            THEN /\ api_resp.status = 201
                 /\ api_resp.users # <<>>
                 /\ api_resp.users[1] \in Range(users)
            ELSE api_resp.status = 400)
    /\ [](api_resp.op = "delete" =>
            \/ api_resp.status = 404 /\ downstream = NoCall
            \/ api_resp.status = 200 /\ downstream # NoCall /\ Find(api_resp.id[1]) = <<>>)
    /\ [][api_pc # Idle => (users' = users /\ user_counter' = user_counter)]_vars

C7_Witness ==
    /\ api_resp.op = "create"
    /\ api_resp.status = 201
    /\ downstream.net = "ok"
    /\ downstream.status = 500
    /\ api_resp.users[1] \in Range(users)

----------------------------------------------------------------------------
\* Properties of concurrent requests (checked under SpecConc).

AllIdle == \A t \in Threads : th[t].pc = "idle"

Created201NoId(t) ==
    /\ th[t].resp.op = "create"
    /\ th[t].resp.status = 201
    /\ "id" \notin DOMAIN th[t].resp.req

\* C9: in Fallback mode, however two threads' creates and deletes
\* interleave, two creates that omit id are answered with different ids, the
\* record each one stored is not overwritten by the other, and once the
\* requests are finished the counter exceeds every id inserted.
C9_NoRaceOnCounterOrMap ==
    /\ \A t1, t2 \in Threads :
          (t1 # t2 /\ Created201NoId(t1) /\ Created201NoId(t2))
             => th[t1].resp.users[1].id # th[t2].resp.users[1].id
    /\ AllIdle => \A i \in inserted : memory_counter > i

\* C11: the transaction_rollback scenario answers with the rollback fault
\* (RuntimeError, status 500) and leaves no pipeline open; neither tx_key1 nor
\* tx_key2 is in the external store in any state, before, during or after the
\* scenario; an open pipeline always has its next step to take, and Fallback
\* mode opens none.
C11_RollbackWritesNothing ==
    /\ "tx_key1" \notin redis_misc
    /\ "tx_key2" \notin redis_misc
    /\ (db_resp.op = "trigger" /\ db_resp.req.type = "transaction_rollback")
          => (db_resp.status = 500 /\ db_resp.error = "RuntimeError" /\ pipe = NoPipe)
    /\ pipe # NoPipe => ENABLED (TxMulti \/ TxSet \/ TxFail \/ TxRollback)
    /\ ~redis_client => pipe = NoPipe

C11_Witness ==
    /\ redis_client
    /\ redis_up
    /\ pipe = NoPipe
    /\ db_resp = Raised("trigger", "transaction_rollback", "RuntimeError")
    /\ redis_misc # {}

\* C12: a request that triggers infinite_loop is never answered with a success
\* status: its answer is a raised fault with a non-2xx status, the timeout
\* raised when the wall-clock alarm cuts the busy-loop.
C12_InfiniteLoopEndsByTimeout ==
    (api_resp.op = "trigger" /\ api_resp.req.type = "infinite_loop")
       => (api_resp.status \notin 200..299 /\ api_resp.error # "")

\* C13: in External mode every user record in the external store carries the
\* expiry of 3600 seconds, also after a create that an I/O failure cut short;
\* in Fallback mode no record expires: every id written and not deleted since
\* is still in the map.
C13_EveryRecordHasTTL ==
    /\ redis_client =>
          \A k \in DOMAIN redis_users : redis_users[k].ttl = <<EXPIRE_SECONDS>>
    /\ ~redis_client => (inserted \ deleted) \subseteq DOMAIN memory_users

====
